---- MODULE Spec2Model ----
(***************************************************************************)
(* A model of bin/bang.js: the shebang applier.                            *)
(*                                                                         *)
(* JavaScript strings are modelled as sequences of one-character strings,  *)
(* so that split, join, replace, includes, startsWith and trim are         *)
(* computed character by character as the code computes them.  A file is   *)
(* its utf8 text (what readFileSync(path, 'utf8') returns and what         *)
(* writeFileSync stores) together with its permission bits.                *)
(***************************************************************************)
EXTENDS Integers, Sequences, FiniteSets, TLC

VARIABLES
  fs,          \* the file system: path -> [exists, content, mode]
  fs0,         \* the file system before the run
  pc,          \* the position of the process
  argv,        \* process.argv.slice(2)
  options,     \* parseArgs' options
  positional,  \* parseArgs' positional arguments
  pkg,         \* package.json as the run found it
  queue,       \* Object.entries(bangConfig)
  idx,         \* number of entries of queue already handed to addShebang
  filePath,    \* first argument of the latest addShebang call
  executable,  \* second argument of the latest addShebang / createShebang call
  shebang,     \* result of the latest createShebang call made on its own
  exitCode,    \* -1 while the process runs, then its exit code
  out,         \* what was printed, in order
  ops          \* the file system calls made, in order

vars == <<fs, fs0, pc, argv, options, positional, pkg, queue, idx, filePath,
          executable, shebang, exitCode, out, ops>>

---------------------------------------------------------------------------
(* Bounds *)

MaxCmdLen == 6

MaxContentLen == 5

MaxArgs == 3

MaxEntries == 2

---------------------------------------------------------------------------
(* Strings *)

\* JavaScript's \s, as far as the modelled alphabets go
WhiteSpace == {" ", "\t", "\n", "\r", "\f"}

\* JavaScript's [\w\d]
WordChars ==
  {"a","b","c","d","e","f","g","h","i","j","k","l","m","n","o","p","q","r",
   "s","t","u","v","w","x","y","z",
   "A","B","C","D","E","F","G","H","I","J","K","L","M","N","O","P","Q","R",
   "S","T","U","V","W","X","Y","Z",
   "0","1","2","3","4","5","6","7","8","9","_"}

SeqsUpTo(S, n) == UNION {[1..k -> S] : k \in 0..n}

\* content.startsWith(prefix)
startsWith(s, prefix) ==
  /\ Len(s) >= Len(prefix)
  /\ SubSeq(s, 1, Len(prefix)) = prefix

\* s.includes(c) for a one-character c
includes(s, c) == \E i \in 1..Len(s) : s[i] = c

\* s.split(/\n/g): the pieces between the line feeds, n + 1 of them for n
\* line feeds (one empty piece for the empty string)
RECURSIVE split(_)
split(s) ==
  IF ~includes(s, "\n") THEN <<s>>
  ELSE LET i == CHOOSE k \in 1..Len(s) :
                  s[k] = "\n" /\ \A j \in 1..(k - 1) : s[j] # "\n"
       IN <<SubSeq(s, 1, i - 1)>> \o split(SubSeq(s, i + 1, Len(s)))

\* pieces.slice(1)
slice1(pieces) == IF pieces = <<>> THEN <<>> ELSE Tail(pieces)

\* pieces.join('\n')
RECURSIVE join(_)
join(pieces) ==
  IF pieces = <<>> THEN <<>>
  ELSE IF Len(pieces) = 1 THEN pieces[1]
  ELSE pieces[1] \o <<"\n">> \o join(Tail(pieces))

\* s.trim()
RECURSIVE trimStart(_)
trimStart(s) ==
  IF s # <<>> /\ s[1] \in WhiteSpace THEN trimStart(Tail(s)) ELSE s

RECURSIVE trimEnd(_)
trimEnd(s) ==
  IF s # <<>> /\ s[Len(s)] \in WhiteSpace
  THEN trimEnd(SubSeq(s, 1, Len(s) - 1)) ELSE s

trim(s) == trimEnd(trimStart(s))

---------------------------------------------------------------------------
(* createShebang *)

\* '#!/usr/bin/env '
EnvPrefix ==
  <<"#","!","/","u","s","r","/","b","i","n","/","e","n","v"," ">>

\* '#!/usr/bin/env -S '
EnvSPrefix == EnvPrefix \o <<"-","S"," ">>

\* executable.replace(/^-S\s/, ''): a leading -S and ONE white space only
StripOneSpace(e) ==
  IF Len(e) >= 3 /\ e[1] = "-" /\ e[2] = "S" /\ e[3] \in WhiteSpace
  THEN SubSeq(e, 4, Len(e))
  ELSE e

\* executable.replace(/^-S\s+/, ''): a leading -S and the whole run of white
\* space after it (at least one) are removed; anything else is left alone
StripLeadingS(e) ==
  IF Len(e) >= 3 /\ e[1] = "-" /\ e[2] = "S" /\ e[3] \in WhiteSpace
  THEN trimStart(SubSeq(e, 3, Len(e)))
  ELSE e

\* the directive already ended by the line break the caller adds
createShebangLine(e) ==
  LET cleanExecutable == StripLeadingS(e)
  IN IF includes(cleanExecutable, " ")
     THEN EnvSPrefix \o cleanExecutable \o <<"\n">>
     ELSE EnvPrefix \o cleanExecutable \o <<"\n">>

createShebang(e) ==
  LET cleanExecutable == StripLeadingS(e)
  IN IF includes(cleanExecutable, " ")
     THEN EnvSPrefix \o cleanExecutable
     ELSE EnvPrefix \o cleanExecutable

---------------------------------------------------------------------------
(* The file system *)

\* the paths that may name a file; any other path names nothing. Two of
\* them are integer-like property names, which Object.entries orders by value
Paths == {<<"a">>, <<"b">>, <<"2">>, <<"1", "0">>}

\* 0o755
ExecMode == 493

NoFile == [exists |-> FALSE, content |-> <<>>, mode |-> 0]

existsSync(files, p) == p \in DOMAIN files /\ files[p].exists

readFileSync(files, p) == files[p].content

\* on an existing file: the data replaces the content, the mode stays
writeFileSync(files, p, data) == [files EXCEPT ![p].content = data]

\* a | b on permission bits
RECURSIVE BitOr(_, _)
BitOr(a, b) ==
  IF a = 0 THEN b
  ELSE IF b = 0 THEN a
  ELSE (IF a % 2 = 1 \/ b % 2 = 1 THEN 1 ELSE 0) + 2 * BitOr(a \div 2, b \div 2)

\* chmod that adds the bits to the ones the file has
chmodMerge(files, p, mode) ==
  [files EXCEPT ![p].mode = BitOr(files[p].mode, mode)]

\* the permission bits become exactly mode
chmodSync(files, p, mode) == [files EXCEPT ![p].mode = mode]

Message(stream, kind, path, text) ==
  [stream |-> stream, kind |-> kind, path |-> path, text |-> text]

Op(name, path) == [op |-> name, path |-> path]

---------------------------------------------------------------------------
(* addShebang *)

\* content.startsWith('#!/')
hasShebangSlash(content) == startsWith(content, <<"#", "!", "/">>)

\* content.startsWith('#!')
hasShebang(content) == startsWith(content, <<"#", "!">>)

\* content.split(/\n/g).join('\n'): the first piece is kept
keepFirstLine(content) == join(split(content))

\* the first line is emptied and its line feed stays
blankFirstLine(content) == join(<<<<>>>> \o slice1(split(content)))

\* content.split(/\n/g).slice(1).join('\n')
dropFirstLine(content) == join(slice1(split(content)))

\* content + shebang
appendShebang(line, content) == content \o line

\* shebang + content
newContent(line, content) == line \o content

\* The result of a call: the files, what it printed, the file system calls
\* it made, and exit: -1 for a call that returns, the exit code for a call
\* that ends the process.

\* the error is printed and the call returns
missingFileReturns(files, path) ==
  [fs   |-> files,
   out  |-> <<Message("stderr", "missing", path, <<>>)>>,
   ops  |-> <<Op("existsSync", path)>>,
   exit |-> -1]

\* the branch for a path that does not exist: console.error, process.exit(1)
missingFile(files, path) ==
  [fs   |-> files,
   out  |-> <<Message("stderr", "missing", path, <<>>)>>,
   ops  |-> <<Op("existsSync", path)>>,
   exit |-> 1]

addShebang(files, path, exe, opts) ==
  IF ~existsSync(files, path)
  THEN missingFile(files, path)
  ELSE
    LET content0 == readFileSync(files, path)
        line     == createShebang(exe) \o <<"\n">>
        read     == <<Op("existsSync", path), Op("readFileSync", path)>>
        Return(kind, text) ==
          [fs   |-> files,
           out  |-> <<Message("stdout", kind, path, text)>>,
           ops  |-> read,
           exit |-> -1]
        Write(content) ==
          [fs   |-> chmodSync(writeFileSync(files, path,
                                            newContent(line, content)),
                              path, ExecMode),
           out  |-> <<Message("stdout", "added", path, trim(line))>>,
           ops  |-> read \o <<Op("writeFileSync", path),
                              Op("chmodSync", path)>>,
           exit |-> -1]
    IN IF hasShebang(content0)
       THEN IF opts.dryRun
            THEN IF ~opts.force
                 THEN Return("would_skip", <<>>)
                 ELSE Return("would_replace", trim(line))
            ELSE IF ~opts.force
                 THEN Return("skipped", <<>>)
                 ELSE Write(dropFirstLine(content0))
       ELSE IF opts.dryRun
            THEN Return("would_add", trim(line))
            ELSE Write(content0)

---------------------------------------------------------------------------
(* parseArgs *)

TokHelp == <<"-","-","h","e","l","p">>

TokH == <<"-","h">>

TokVersion == <<"-","-","v","e","r","s","i","o","n">>

TokV == <<"-","v">>

TokForce == <<"-","-","f","o","r","c","e">>

TokF == <<"-","f">>

TokDryRun == <<"-","-","d","r","y","-","r","u","n">>

TokN == <<"-","n">>

Recognized ==
  {TokHelp, TokH, TokVersion, TokV, TokForce, TokF, TokDryRun, TokN}

\* arg.match(/^-[\w\d]+$/): one dash only
matchesOneDash(arg) ==
  /\ Len(arg) >= 2
  /\ arg[1] = "-"
  /\ \A i \in 2..Len(arg) : arg[i] \in WordChars

\* arg.match(/^--?[\w\d]+$/): one dash or two, then word characters and
\* nothing else up to the end
matchesOption(arg) ==
  \/ /\ Len(arg) >= 2
     /\ arg[1] = "-"
     /\ \A i \in 2..Len(arg) : arg[i] \in WordChars
  \/ /\ Len(arg) >= 3
     /\ arg[1] = "-"
     /\ arg[2] = "-"
     /\ \A i \in 3..Len(arg) : arg[i] \in WordChars

NoOptions ==
  [help |-> FALSE, version |-> FALSE, force |-> FALSE, dryRun |-> FALSE]

\* the for loop of parseArgs from the state st on; error is "none" until
\* the loop throws
RECURSIVE parseLoop(_, _)
parseLoop(args, st) ==
  IF args = <<>> THEN st
  ELSE
    LET arg == Head(args)
    IN IF arg = TokHelp \/ arg = TokH
       THEN parseLoop(Tail(args), [st EXCEPT !.options.help = TRUE])
       ELSE IF arg = TokVersion \/ arg = TokV
       THEN parseLoop(Tail(args), [st EXCEPT !.options.version = TRUE])
       ELSE IF arg = TokForce \/ arg = TokF
       THEN parseLoop(Tail(args), [st EXCEPT !.options.force = TRUE])
       ELSE IF arg = TokDryRun \/ arg = TokN
       THEN parseLoop(Tail(args), [st EXCEPT !.options.dryRun = TRUE])
       ELSE IF matchesOption(arg)
       THEN [st EXCEPT !.error = "unknown_option", !.arg = arg]
       ELSE parseLoop(Tail(args),
                      [st EXCEPT !.positional = Append(@, arg)])

\* positional.length !== 2: a run without positional arguments is refused
parseArgsTwoOnly(args) ==
  LET st == parseLoop(args, [options |-> NoOptions, positional |-> <<>>,
                             error |-> "none", arg |-> <<>>])
  IN IF st.error # "none" THEN st
     ELSE IF Len(st.positional) # 2
     THEN [st EXCEPT !.error = "invalid_count"]
     ELSE st

parseArgs(args) ==
  LET st == parseLoop(args, [options |-> NoOptions, positional |-> <<>>,
                             error |-> "none", arg |-> <<>>])
  IN IF st.error # "none" THEN st
     ELSE IF Len(st.positional) # 0 /\ Len(st.positional) # 2
     THEN [st EXCEPT !.error = "invalid_count"]
     ELSE st

---------------------------------------------------------------------------
(* package.json *)

PackageJson == <<"package.json">>

Digits == {"0","1","2","3","4","5","6","7","8","9"}

DigitValue(c) ==
  CASE c = "0" -> 0 [] c = "1" -> 1 [] c = "2" -> 2 [] c = "3" -> 3
    [] c = "4" -> 4 [] c = "5" -> 5 [] c = "6" -> 6 [] c = "7" -> 7
    [] c = "8" -> 8 [] c = "9" -> 9

\* a key that JavaScript treats as an integer index: the canonical decimal
\* form of a non-negative integer
IsIndexKey(k) ==
  /\ k # <<>>
  /\ \A i \in 1..Len(k) : k[i] \in Digits
  /\ (Len(k) = 1 \/ k[1] # "0")

RECURSIVE KeyNumber(_)
KeyNumber(k) ==
  IF k = <<>> THEN 0
  ELSE 10 * KeyNumber(SubSeq(k, 1, Len(k) - 1)) + DigitValue(k[Len(k)])

\* integer-keyed entries in ascending order of their keys
RECURSIVE SortByKeyNumber(_)
SortByKeyNumber(s) ==
  IF s = <<>> THEN <<>>
  ELSE LET i == CHOOSE k \in 1..Len(s) :
                  \A j \in 1..Len(s) :
                    KeyNumber(s[k].path) <= KeyNumber(s[j].path)
       IN <<s[i]>> \o
          SortByKeyNumber(SubSeq(s, 1, i - 1) \o SubSeq(s, i + 1, Len(s)))

\* the entries in the order they are written in package.json
ObjectEntriesDeclared(decl) == decl

\* Object.entries(bangConfig) of a mapping written with the entries decl:
\* integer keys first, ascending, then the other keys as written
ObjectEntries(decl) ==
  LET IsIndex(e) == IsIndexKey(e.path)
      IsName(e)  == ~IsIndexKey(e.path)
  IN SortByKeyNumber(SelectSeq(decl, IsIndex)) \o SelectSeq(decl, IsName)

---------------------------------------------------------------------------
(* Inputs *)

\* 0o644 and 0o666
Modes == {420, 438}

FileChars == {"#", "!", "\n", "x"}

CmdChars == {"-", "S", " ", "\t", "\n", "a"}

\* an option-like token that is none of the recognized ones
TokUnknown == <<"-","-","x">>

\* tokens that start with a dash and are not matched by parseArgs' pattern
TokDashCmd == <<"-","S"," ","a">>

TokDashed == <<"-","-","a","-","b">>

\* a one-dash token that parseArgs does not recognize
TokS == <<"-","S">>

Tokens ==
  Recognized \cup {TokUnknown, TokS, TokDashCmd, TokDashed, <<"a">>, <<"2">>}

Argvs == SeqsUpTo(Tokens, MaxArgs)

\* a file without a shebang and a file with one
PlainFile == [exists |-> TRUE, content |-> <<"x", "\n">>, mode |-> 420]

ScriptFile ==
  [exists |-> TRUE, content |-> <<"#", "!", "s", "\n", "x">>, mode |-> 420]

RunFiles == {NoFile, PlainFile, ScriptFile}

ApplyCmds == {<<"a">>, <<"a", " ", "b">>, TokDashCmd}

AllOptions ==
  {[NoOptions EXCEPT !.force = f, !.dryRun = d] : f, d \in BOOLEAN}

Entry(p, e) == [path |-> p, exe |-> e]

\* the "bang" mappings: up to MaxEntries entries with distinct keys
Mappings ==
  {m \in SeqsUpTo({Entry(p, <<"a">>) : p \in Paths}, MaxEntries) :
     \A i, j \in 1..Len(m) : i # j => m[i].path # m[j].path}

\* package.json: absent, not JSON, the JSON null, an object without a
\* "bang" field, or an object whose "bang" field is a mapping
Manifests ==
  {[kind |-> k, bang |-> <<>>] :
     k \in {"absent", "unparsable", "null", "nobang"}}
  \cup {[kind |-> "bang", bang |-> m] : m \in Mappings}

NotRead == [kind |-> "unread", bang |-> <<>>]

---------------------------------------------------------------------------
(* Reading the manifest *)

\* packageJson.bang || {}: a manifest without the field has no entries
loadManifestDefault(m) ==
  IF m.kind \in {"absent", "unparsable"}
  THEN [exit |-> 1, queue |-> <<>>,
        out |-> <<Message("stderr", "no_package_json", <<>>, <<>>)>>]
  ELSE IF m.kind = "null"
  THEN [exit |-> 1, queue |-> <<>>,
        out |-> <<Message("stderr", "uncaught", <<>>, <<>>)>>]
  ELSE [exit |-> -1, queue |-> ObjectEntries(m.bang), out |-> <<>>]

\* main from the read of package.json to the loop: the read or the parse
\* throws and the catch exits; null.bang throws and nothing catches it; a
\* missing "bang" field exits; otherwise the entries are the loop's
loadManifest(m) ==
  IF m.kind \in {"absent", "unparsable"}
  THEN [exit |-> 1, queue |-> <<>>,
        out |-> <<Message("stderr", "no_package_json", <<>>, <<>>)>>]
  ELSE IF m.kind = "null"
  THEN [exit |-> 1, queue |-> <<>>,
        out |-> <<Message("stderr", "uncaught", <<>>, <<>>)>>]
  ELSE IF m.kind = "nobang"
  THEN [exit |-> 1, queue |-> <<>>,
        out |-> <<Message("stderr", "no_bang_config", <<>>, <<>>),
                  Message("stderr", "no_bang_hint", <<>>, <<>>)>>]
  ELSE [exit |-> -1, queue |-> ObjectEntries(m.bang), out |-> <<>>]

---------------------------------------------------------------------------
(* The run: main *)

\* the state before main runs; no file is named 10
Init ==
  /\ fs \in {f \in [Paths -> RunFiles] : f[<<"1", "0">>] = NoFile}
  /\ fs0 = fs
  /\ pc = "start"
  /\ argv = <<>>
  /\ options = NoOptions
  /\ positional = <<>>
  /\ pkg = NotRead
  /\ queue = <<>>
  /\ idx = 0
  /\ filePath = <<>>
  /\ executable = <<>>
  /\ shebang = <<>>
  /\ exitCode = -1
  /\ out = <<>>
  /\ ops = <<>>

Usage(stream) == Message(stream, "usage", <<>>, <<>>)

\* process.exit(code) after printing lines
Exit(code, lines) ==
  /\ pc' = "exited"
  /\ exitCode' = code
  /\ out' = out \o lines

\* main up to the choice of the input mode (lines 224-255, 277-278)
Start ==
  /\ pc = "start"
  /\ \E args \in Argvs :
       LET p == parseArgs(args)
       IN /\ argv' = args
          /\ options' = IF p.error # "none" THEN NoOptions ELSE p.options
          /\ positional' = IF p.error # "none" THEN <<>> ELSE p.positional
          /\ IF p.error # "none"
             THEN Exit(1, <<Message("stderr", p.error, p.arg, <<>>),
                            Usage("stderr")>>)
             ELSE IF p.options.help
             THEN Exit(0, <<Usage("stdout")>>)
             ELSE IF p.options.version
             THEN Exit(0, <<Message("stdout", "version", <<>>, <<>>)>>)
             ELSE IF Len(p.positional) = 2
             THEN pc' = "single" /\ UNCHANGED <<exitCode, out>>
             ELSE IF Len(p.positional) = 0
             THEN pc' = "manifest" /\ UNCHANGED <<exitCode, out>>
             ELSE Exit(1, <<Usage("stderr")>>)
  /\ UNCHANGED <<fs, fs0, pkg, queue, idx, filePath, executable, shebang, ops>>

\* process.exitCode = 1: the code is set and the run goes on
callNeverEnds(r) == FALSE

\* process.exit(code) inside the call ends the process then and there
callEnds(r) == r.exit # -1

\* a call of addShebang from main; after a call that returns the process
\* goes to next
Call(path, exe, next) ==
  LET r == addShebang(fs, path, exe, options)
  IN /\ filePath' = path
     /\ executable' = exe
     /\ fs' = r.fs
     /\ ops' = ops \o r.ops
     /\ out' = out \o r.out
     /\ IF callEnds(r)
        THEN pc' = "exited" /\ exitCode' = r.exit
        ELSE pc' = next /\ UNCHANGED exitCode

\* bang <file> <executable> (lines 248-252)
Single ==
  /\ pc = "single"
  /\ Call(positional[1], positional[2], "return")
  /\ UNCHANGED <<fs0, argv, options, positional, pkg, queue, idx, shebang>>

\* bang without positional arguments, up to the loop (lines 255-269)
ReadManifest ==
  /\ pc = "manifest"
  /\ \E m \in Manifests :
       /\ pkg' = m
       /\ ops' = Append(ops, Op("readFileSync", PackageJson))
       /\ LET r == loadManifest(m)
          IN /\ queue' = r.queue
             /\ IF r.exit # -1
                THEN Exit(r.exit, r.out)
                ELSE pc' = "loop" /\ UNCHANGED <<exitCode, out>>
  /\ UNCHANGED <<fs, fs0, argv, options, positional, idx, filePath,
                 executable, shebang>>

\* one iteration of the loop over the entries (lines 271-273)
LoopStep ==
  /\ pc = "loop"
  /\ idx < Len(queue)
  /\ idx' = idx + 1
  /\ Call(queue[idx + 1].path, queue[idx + 1].exe, "loop")
  /\ UNCHANGED <<fs0, argv, options, positional, pkg, queue, shebang>>

\* the loop is over (line 274)
LoopEnd ==
  /\ pc = "loop"
  /\ idx = Len(queue)
  /\ pc' = "return"
  /\ UNCHANGED <<fs, fs0, argv, options, positional, pkg, queue, idx,
                 filePath, executable, shebang, exitCode, out, ops>>

\* main returns and the process ends with code 0
Return ==
  /\ pc = "return"
  /\ pc' = "exited"
  /\ exitCode' = 0
  /\ UNCHANGED <<fs, fs0, argv, options, positional, pkg, queue, idx,
                 filePath, executable, shebang, out, ops>>

Next == Start \/ Single \/ ReadManifest \/ LoopStep \/ LoopEnd \/ Return

Spec == Init /\ [][Next]_vars

---------------------------------------------------------------------------
(* One application of addShebang to one file *)

InitApply ==
  /\ \E c \in SeqsUpTo(FileChars, MaxContentLen), m \in Modes, e \in BOOLEAN :
       fs = [p \in Paths |->
               IF p = <<"a">> /\ e
               THEN [exists |-> TRUE, content |-> c, mode |-> m]
               ELSE NoFile]
  /\ fs0 = fs
  /\ pc = "apply"
  /\ argv = <<>>
  /\ options = NoOptions
  /\ positional = <<>>
  /\ pkg = NotRead
  /\ queue = <<>>
  /\ idx = 0
  /\ filePath = <<>>
  /\ executable = <<>>
  /\ shebang = <<>>
  /\ exitCode = -1
  /\ out = <<>>
  /\ ops = <<>>

Apply ==
  /\ pc = "apply"
  /\ \E e \in ApplyCmds, o \in AllOptions :
       /\ options' = o
       /\ LET r == addShebang(fs, <<"a">>, e, o)
          IN /\ filePath' = <<"a">>
             /\ executable' = e
             /\ fs' = r.fs
             /\ ops' = r.ops
             /\ out' = r.out
             /\ exitCode' = r.exit
             /\ pc' = IF r.exit # -1 THEN "exited" ELSE "applied"
  /\ UNCHANGED <<fs0, argv, positional, pkg, queue, idx, shebang>>

NextApply == Apply

SpecApply == InitApply /\ [][NextApply]_vars

---------------------------------------------------------------------------
(* The same call of addShebang made twice *)

\* the commands of Apply and one that holds a line break
RepeatCmds == ApplyCmds \cup {<<"a", "\n", "b">>}

\* the first call, on the file as it was
First ==
  /\ pc = "apply"
  /\ \E e \in RepeatCmds, o \in AllOptions :
       /\ options' = o
       /\ LET r == addShebang(fs, <<"a">>, e, o)
          IN /\ filePath' = <<"a">>
             /\ executable' = e
             /\ fs' = r.fs
             /\ ops' = r.ops
             /\ out' = r.out
             /\ exitCode' = r.exit
             /\ pc' = IF r.exit # -1 THEN "exited" ELSE "applied"
  /\ UNCHANGED <<fs0, argv, positional, pkg, queue, idx, shebang>>

\* the second call, with the same path, command and options, on the file as
\* the first call left it
Reapply ==
  /\ pc = "applied"
  /\ LET r == addShebang(fs, filePath, executable, options)
     IN /\ fs' = r.fs
        /\ ops' = ops \o r.ops
        /\ out' = out \o r.out
        /\ exitCode' = r.exit
        /\ pc' = IF r.exit # -1 THEN "exited" ELSE "reapplied"
  /\ UNCHANGED <<fs0, argv, options, positional, pkg, queue, idx, filePath,
                 executable, shebang>>

NextRepeat == First \/ Reapply

SpecRepeat == InitApply /\ [][NextRepeat]_vars

---------------------------------------------------------------------------
(* One call of createShebang *)

InitShebang ==
  /\ executable \in SeqsUpTo(CmdChars, MaxCmdLen)
  /\ pc = "create"
  /\ shebang = <<>>
  /\ fs = [p \in Paths |-> NoFile]
  /\ fs0 = fs
  /\ argv = <<>>
  /\ options = NoOptions
  /\ positional = <<>>
  /\ pkg = NotRead
  /\ queue = <<>>
  /\ idx = 0
  /\ filePath = <<>>
  /\ exitCode = -1
  /\ out = <<>>
  /\ ops = <<>>

Create ==
  /\ pc = "create"
  /\ shebang' = createShebang(executable)
  /\ pc' = "created"
  /\ UNCHANGED <<fs, fs0, argv, options, positional, pkg, queue, idx,
                 filePath, executable, exitCode, out, ops>>

NextShebang == Create

SpecShebang == InitShebang /\ [][NextShebang]_vars

---------------------------------------------------------------------------
(* Properties of one application (SpecApply) *)

\* the first two characters are # and !
BeginsHashBang(c) == Len(c) >= 2 /\ c[1] = "#" /\ c[2] = "!"

\* the call of Apply has been made
Applied == pc \in {"applied", "exited"}

\* the kind of the one line the call printed
Outcome == out[1].kind

\* the text after the first line feed of c, nothing if c has none
AfterFirstLine(c) ==
  IF \E i \in 1..Len(c) : c[i] = "\n"
  THEN LET i == CHOOSE k \in 1..Len(c) :
                  c[k] = "\n" /\ \A j \in 1..(k - 1) : c[j] # "\n"
       IN [k \in 1..(Len(c) - i) |-> c[i + k]]
  ELSE <<>>

\* C1: a non-dry-run application to an existing file that does not start
\* with #! leaves the file holding createShebang(command), one line feed,
\* and the original content unchanged, and reports "added", whatever the
\* value of force.
C1_PrependsShebang ==
  (/\ Applied
   /\ ~options.dryRun
   /\ fs0[filePath].exists
   /\ ~BeginsHashBang(fs0[filePath].content))
  => /\ fs[filePath].content
          = createShebang(executable) \o <<"\n">> \o fs0[filePath].content
     /\ Len(out) = 1
     /\ Outcome = "added"

C1_Witness ==
  /\ pc = "applied"
  /\ options.force
  /\ ~options.dryRun
  /\ fs0[filePath].content = <<"x", "\n", "#", "!">>
  /\ executable = <<"a", " ", "b">>
  /\ fs[filePath].content
       = EnvSPrefix \o <<"a", " ", "b", "\n", "x", "\n", "#", "!">>
  /\ Outcome = "added"

\* C2: the file's content and mode are changed only by a non-dry-run
\* application to a file that does not start with #! or that is forced; a
\* dry run, and an application without force to a file that starts with #!,
\* leave every file as it was.
C2_FrameOfApplication ==
  Applied =>
    /\ (options.dryRun => fs = fs0)
    /\ (BeginsHashBang(fs0[filePath].content) /\ ~options.force => fs = fs0)
    /\ (fs # fs0 =>
          /\ ~options.dryRun
          /\ (~BeginsHashBang(fs0[filePath].content) \/ options.force))

C2_Witness ==
  /\ pc = "applied"
  /\ options.dryRun
  /\ options.force
  /\ fs0[filePath].content = <<"#", "!", "x", "\n", "x">>
  /\ fs0[filePath].mode = 438
  /\ Outcome = "would_replace"
  /\ fs = fs0

\* C3: a non-dry-run application with force to a file that starts with #!
\* leaves the new shebang line followed by the original content after its
\* first line feed, unchanged: the first line, line feed included, is what
\* is removed.
C3_ForceReplacesFirstLine ==
  (/\ Applied
   /\ ~options.dryRun
   /\ options.force
   /\ BeginsHashBang(fs0[filePath].content))
  => fs[filePath].content
       = createShebang(executable) \o <<"\n">>
           \o AfterFirstLine(fs0[filePath].content)

C3_Witness ==
  /\ pc = "applied"
  /\ ~options.dryRun
  /\ options.force
  /\ fs0[filePath].content = <<"#", "!", "\n", "x", "\n">>
  /\ executable = <<"a">>
  /\ fs[filePath].content = EnvPrefix \o <<"a", "\n", "x", "\n">>

---------------------------------------------------------------------------
(* Properties of createShebang (SpecShebang) *)

NoWhiteSpace(s) == \A i \in 1..Len(s) : s[i] \notin WhiteSpace

\* a white space character with other characters on both sides
InternalWhiteSpace(s) ==
  \E i, j, k \in 1..Len(s) :
    i < j /\ j < k /\ s[i] \notin WhiteSpace /\ s[j] \in WhiteSpace
          /\ s[k] \notin WhiteSpace

\* the command without a leading -S and the white space that follows it
StrippedCommand(e) ==
  IF Len(e) >= 3 /\ SubSeq(e, 1, 2) = <<"-", "S">> /\ e[3] \in WhiteSpace
  THEN LET n == CHOOSE k \in 3..Len(e) :
                  /\ \A i \in 3..k : e[i] \in WhiteSpace
                  /\ (k = Len(e) \/ e[k + 1] \notin WhiteSpace)
       IN [i \in 1..(Len(e) - n) |-> e[n + i]]
  ELSE e

\* C4: a command that, once a leading -S is stripped, has white space of
\* any kind inside it yields '#!/usr/bin/env -S ' followed by the stripped
\* command.
C4_WhiteSpaceGivesEnvS ==
  (pc = "created" /\ InternalWhiteSpace(StrippedCommand(executable)))
  => shebang
       = <<"#","!","/","u","s","r","/","b","i","n","/","e","n","v"," ",
           "-","S"," ">> \o StrippedCommand(executable)

\* C5: a command that, once a leading -S and the white space after it are
\* stripped, has no white space yields '#!/usr/bin/env ' followed by the
\* stripped command, without -S.
C5_PlainCommandGivesEnv ==
  (pc = "created" /\ NoWhiteSpace(StrippedCommand(executable)))
  => shebang
       = <<"#","!","/","u","s","r","/","b","i","n","/","e","n","v"," ">>
           \o StrippedCommand(executable)

C5_Witness ==
  /\ pc = "created"
  /\ executable = <<"-", "S", " ", "\t", "a">>
  /\ shebang = <<"#","!","/","u","s","r","/","b","i","n","/","e","n","v"," ",
                 "a">>

---------------------------------------------------------------------------
(* Properties of the run (Spec) *)

Missing(p) == ~(p \in DOMAIN fs /\ fs[p].exists)

\* C7: a call for a path that does not exist prints the error and ends the
\* process with code 1 there, whatever force and dryRun are, and no entry
\* that comes after it in the batch is looked up, read, written, chmod'ed
\* or reported on.
C7_MissingTargetEndsRun ==
  (filePath # <<>> /\ Missing(filePath))
  => /\ pc = "exited"
     /\ exitCode = 1
     /\ out[Len(out)] = Message("stderr", "missing", filePath, <<>>)
     /\ ops[Len(ops)] = Op("existsSync", filePath)
     /\ \A j \in (idx + 1)..Len(queue) :
          /\ \A i \in 1..Len(ops) : ops[i].path # queue[j].path
          /\ \A i \in 1..Len(out) : out[i].path # queue[j].path

C7_Witness ==
  /\ pc = "exited"
  /\ exitCode = 1
  /\ options.force
  /\ options.dryRun
  /\ Len(queue) = 2
  /\ idx = 1
  /\ filePath = queue[1].path
  /\ Missing(filePath)
  /\ ~Missing(queue[2].path)
  /\ out[Len(out)].kind = "missing"

\* the manifest-driven run ended with the missing-file error
EndedOnMissingFile ==
  /\ pkg.kind = "bang"
  /\ pc = "exited"
  /\ exitCode = 1
  /\ out # <<>>
  /\ out[Len(out)].kind = "missing"

\* C8 as stated: when a manifest-driven run ends with the missing-file
\* error, every file of the batch has the content and the mode it had
\* before the run.
C8_NoPartialCommit ==
  EndedOnMissingFile
  => \A j \in 1..Len(queue) : fs[queue[j].path] = fs0[queue[j].path]

\* C8 as amended: once a manifest-driven run has printed the missing-file
\* error it has ended with code 1 at that entry; the files of that entry
\* and of every later entry are as they were before the run, while the
\* entries before it have been processed and stay so: without dry run, each
\* earlier file that had no #! now starts with its shebang line and has
\* mode 0o755.
C8_AbortKeepsLaterFiles ==
  (pkg.kind = "bang" /\ \E i \in 1..Len(out) : out[i].kind = "missing")
  => /\ EndedOnMissingFile
     /\ idx >= 1
     /\ out[Len(out)].path = queue[idx].path
     /\ \A j \in idx..Len(queue) : fs[queue[j].path] = fs0[queue[j].path]
     /\ \A j \in 1..(idx - 1) :
          LET old == fs0[queue[j].path]
          IN (~options.dryRun /\ ~BeginsHashBang(old.content))
             => /\ fs[queue[j].path].content
                     = createShebang(queue[j].exe) \o <<"\n">> \o old.content
                /\ fs[queue[j].path].mode = 493

C8_Witness ==
  /\ EndedOnMissingFile
  /\ Len(queue) = 2
  /\ idx = 2
  /\ ~options.dryRun
  /\ fs0[queue[1].path] = PlainFile
  /\ fs[queue[1].path] # fs0[queue[1].path]
  /\ Missing(queue[2].path)

\* C9: in manifest mode, a package.json that is absent or cannot be parsed,
\* or that has no "bang" field, ends the run with code 1 after an error
\* message, and no target file has been read or modified: the only file
\* system call made is the read of package.json.
C9_ManifestErrorIsFatal ==
  (pkg.kind \in {"absent", "unparsable", "null", "nobang"})
  => /\ pc = "exited"
     /\ exitCode = 1
     /\ out # <<>>
     /\ \A i \in 1..Len(out) : out[i].stream = "stderr"
     /\ fs = fs0
     /\ ops = <<Op("readFileSync", PackageJson)>>
     /\ filePath = <<>>

C9_Witness ==
  /\ pkg.kind = "nobang"
  /\ argv = <<TokForce>>
  /\ pc = "exited"
  /\ exitCode = 1
  /\ out[1].kind = "no_bang_config"
  /\ fs[<<"a">>] = PlainFile

\* one dash or two followed by letters, digits or underscores only
PlainOption(t) ==
  \E d \in {1, 2} :
    /\ Len(t) > d
    /\ \A i \in 1..d : t[i] = "-"
    /\ \A i \in (d + 1)..Len(t) : t[i] \in WordChars

\* C10 as stated: every token that starts with a dash and is not one of the
\* eight recognized options makes the run fail with the Unknown option
\* error and code 1, is never a file path or a command, and no file is
\* modified.
C10_DashTokenIsUnknownOption ==
  (/\ pc # "start"
   /\ \E i \in 1..Len(argv) : argv[i][1] = "-" /\ argv[i] \notin Recognized)
  => /\ pc = "exited"
     /\ exitCode = 1
     /\ out[1].kind = "unknown_option"
     /\ fs = fs0
     /\ \A i \in 1..Len(argv) :
          argv[i][1] = "-" => argv[i] \notin {filePath, executable}

\* C10 as amended: every token made of one dash or two followed only by
\* letters, digits or underscores that is not one of the eight recognized
\* options makes the run fail with the Unknown option error, naming the
\* first such token, and code 1; no token has been taken as a file path or
\* a command, no file system call has been made and no file is modified.
C10_PlainUnknownOptionIsFatal ==
  (/\ pc # "start"
   /\ \E i \in 1..Len(argv) : PlainOption(argv[i]) /\ argv[i] \notin Recognized)
  => LET first == CHOOSE i \in 1..Len(argv) :
                    /\ PlainOption(argv[i]) /\ argv[i] \notin Recognized
                    /\ \A j \in 1..(i - 1) :
                         ~(PlainOption(argv[j]) /\ argv[j] \notin Recognized)
     IN /\ pc = "exited"
        /\ exitCode = 1
        /\ out = <<Message("stderr", "unknown_option", argv[first], <<>>),
                   Usage("stderr")>>
        /\ positional = <<>>
        /\ filePath = <<>>
        /\ executable = <<>>
        /\ ops = <<>>
        /\ fs = fs0

C10_Witness ==
  /\ pc = "exited"
  /\ exitCode = 1
  /\ argv = <<TokF, <<"a">>, TokUnknown>>
  /\ out[1] = Message("stderr", "unknown_option", TokUnknown, <<>>)
  /\ fs[<<"a">>] = PlainFile

---------------------------------------------------------------------------
(* The input mode (Spec) *)

NotAnOption(t) == t \notin Recognized

\* the tokens of argv that are not recognized options, in order
PositionalTokens == SelectSeq(argv, NotAnOption)

HelpOrVersionAsked ==
  \E i \in 1..Len(argv) : argv[i] \in {TokHelp, TokH, TokVersion, TokV}

NoUnknownOption ==
  \A i \in 1..Len(argv) : ~(PlainOption(argv[i]) /\ argv[i] \notin Recognized)

\* C11: once the recognized flags are taken out, the number of positional
\* arguments alone decides the input mode of a run that asks neither for
\* help nor for the version: two positionals make the run process the one
\* target (path, command) they give and never read package.json; none makes
\* it read package.json and process its entries only; any other number is a
\* usage error that ends the run with code 1 before any file system call.
C11_ModeByPositionalCount ==
  (pc # "start" /\ NoUnknownOption)
  => /\ Len(PositionalTokens) \notin {0, 2}
          => /\ pc = "exited"
             /\ exitCode = 1
             /\ out = <<Message("stderr", "invalid_count", <<>>, <<>>),
                        Usage("stderr")>>
             /\ ops = <<>>
             /\ fs = fs0
     /\ (Len(PositionalTokens) = 2 /\ ~HelpOrVersionAsked)
          => /\ pkg = NotRead
             /\ queue = <<>>
             /\ \/ pc = "single" /\ ops = <<>>
                \/ /\ pc \in {"return", "exited"}
                   /\ filePath = PositionalTokens[1]
                   /\ executable = PositionalTokens[2]
                   /\ ops # <<>>
                   /\ \A i \in 1..Len(ops) : ops[i].path = filePath
     /\ (Len(PositionalTokens) = 0 /\ ~HelpOrVersionAsked)
          => \/ pc = "manifest" /\ ops = <<>>
             \/ /\ pkg # NotRead
                /\ ops[1] = Op("readFileSync", PackageJson)
                /\ \A i \in 2..Len(ops) :
                     \E j \in 1..Len(queue) : ops[i].path = queue[j].path

C11_Witness ==
  /\ pc = "exited"
  /\ exitCode = 1
  /\ argv = <<TokF, <<"a">>, TokN>>
  /\ out[1].kind = "invalid_count"
  /\ fs[<<"a">>] = PlainFile

---------------------------------------------------------------------------
(* The synthesized directive is one line (SpecShebang) *)

LineBreaks(s) == Cardinality({i \in 1..Len(s) : s[i] = "\n"})

\* C12 as stated: for every command the result of createShebang contains
\* no line break.
C12_AlwaysOneLine ==
  pc = "created" => LineBreaks(shebang) = 0

\* C12: createShebang returns one string for every command; the string
\* begins with '#!' and holds exactly the line breaks of the command left
\* after the -S strip, so it is a single line without a trailing newline
\* whenever the command holds no line break.
C12_OneLineForOneLineCommand ==
  pc = "created"
  => /\ Len(shebang) >= 2
     /\ SubSeq(shebang, 1, 2) = <<"#", "!">>
     /\ LineBreaks(shebang) = LineBreaks(StrippedCommand(executable))
     /\ LineBreaks(executable) = 0
          => /\ LineBreaks(shebang) = 0
             /\ shebang[Len(shebang)] # "\n"

C12_Witness ==
  /\ pc = "created"
  /\ executable = <<"-", "S", "\t", "a", " ", "a">>
  /\ LineBreaks(shebang) = 0
  /\ shebang = EnvSPrefix \o <<"a", " ", "a">>

---------------------------------------------------------------------------
(* The batch over the manifest's entries (Spec) *)

\* the place of entry e in the mapping as written in package.json
Declared(e) == CHOOSE k \in 1..Len(pkg.bang) : pkg.bang[k] = e

\* x is enumerated before y: integer-like keys come first in ascending
\* numeric order, the other keys follow in the order they are written
EnumeratedBefore(x, y) ==
  IF IsIndexKey(x.path)
  THEN ~IsIndexKey(y.path) \/ KeyNumber(x.path) < KeyNumber(y.path)
  ELSE ~IsIndexKey(y.path) /\ Declared(x) < Declared(y)

\* the decision table of addShebang on file f under the options o
Decision(f, o) ==
  IF ~f.exists THEN "missing"
  ELSE IF BeginsHashBang(f.content)
  THEN IF o.dryRun
       THEN (IF o.force THEN "would_replace" ELSE "would_skip")
       ELSE (IF o.force THEN "added" ELSE "skipped")
  ELSE IF o.dryRun THEN "would_add" ELSE "added"

InBatch == pkg.kind = "bang" /\ pc \in {"loop", "return", "exited"}

\* the entry of the queue whose file the n-th file system call is made on
Target(n) == CHOOSE j \in 1..Len(queue) : queue[j].path = ops[n].path

\* what every batch does, whatever the order of its entries: one report per
\* entry handled, given by the decision table from the file as it was and
\* the shared options; the file changes only on "added"; the calls on one
\* file are all made before the first call on the next; the batch stops
\* only on a missing file, and otherwise ends after the last entry with 0
BatchIsSequential ==
  /\ Len(out) = idx
  /\ idx <= Len(queue)
  /\ \A i \in 1..idx :
       /\ out[i].path = queue[i].path
       /\ out[i].kind = Decision(fs0[queue[i].path], options)
       /\ (fs[queue[i].path] # fs0[queue[i].path]) => out[i].kind = "added"
       /\ out[i].kind = "missing" => (i = idx /\ pc = "exited" /\ exitCode = 1)
  /\ \A m, n \in 2..Len(ops) : m < n => Target(m) <= Target(n)
  /\ \A n \in 2..Len(ops) : Target(n) <= idx
  /\ (idx >= 1 /\ idx < Len(queue) /\ out[idx].kind # "missing")
       => pc = "loop"
  /\ (pc = "exited" /\ \A i \in 1..idx : out[i].kind # "missing")
       => (idx = Len(queue) /\ exitCode = 0)

\* C13 as stated: the entries are processed in the order they are declared
\* in the "bang" mapping.
C13_DeclaredOrder ==
  InBatch
  => /\ BatchIsSequential
     /\ \A i \in 1..idx : out[i].path = pkg.bang[i].path

\* C13: in manifest mode the entries are processed one after another in the
\* order Object.entries gives them: the keys that are canonical non-negative
\* integers first, in ascending numeric order, then the other keys in the
\* order they are declared. Each file is finished before the next begins,
\* each outcome follows the decision table from the file's own content and
\* the shared options, and an outcome other than the missing-file error
\* does not stop the batch: unless a later entry's file is missing, all later
\* entries are processed and the run exits with code 0.
C13_EnumerationOrder ==
  InBatch
  => /\ BatchIsSequential
     /\ Len(queue) = Len(pkg.bang)
     /\ {queue[i] : i \in 1..Len(queue)}
          = {pkg.bang[i] : i \in 1..Len(pkg.bang)}
     /\ \A i, j \in 1..Len(queue) :
          i < j => EnumeratedBefore(queue[i], queue[j])

C13_Witness ==
  /\ pc = "exited"
  /\ exitCode = 0
  /\ pkg.kind = "bang"
  /\ pkg.bang = <<Entry(<<"a">>, <<"a">>), Entry(<<"2">>, <<"a">>)>>
  /\ ~options.force
  /\ ~options.dryRun
  /\ idx = 2
  /\ out[1] = Message("stdout", "skipped", <<"2">>, <<>>)
  /\ out[2].kind = "added"
  /\ out[2].path = <<"a">>

---------------------------------------------------------------------------
(* Repeating a call (SpecRepeat) *)

\* what one call leaves of the file old for command e under options o
AfterOneCall(old, e, o) ==
  IF ~o.dryRun /\ (o.force \/ ~BeginsHashBang(old.content))
  THEN [old EXCEPT
          !.content = createShebang(e) \o <<"\n">>
                        \o (IF BeginsHashBang(old.content)
                            THEN AfterFirstLine(old.content)
                            ELSE old.content),
          !.mode = 493]
  ELSE old

\* C14: for an existing file, a command without a line break and fixed
\* options, the file after the second of two identical calls of addShebang
\* has the content and the mode it had after the first: what one call
\* leaves. With or without force the file holds one shebang line followed
\* by the original text without its old shebang line, never two.
C14_RepeatIsIdempotent ==
  (pc \in {"applied", "reapplied"} /\ LineBreaks(executable) = 0)
  => /\ fs[filePath] = AfterOneCall(fs0[filePath], executable, options)
     /\ \A p \in Paths : p # filePath => fs[p] = fs0[p]
     /\ Len(out) = (IF pc = "applied" THEN 1 ELSE 2)

C14_Witness ==
  /\ pc = "reapplied"
  /\ options.force
  /\ ~options.dryRun
  /\ executable = <<"a">>
  /\ fs0[filePath].content = <<"#", "!", "\n", "x">>
  /\ fs[filePath].content = EnvPrefix \o <<"a", "\n", "x">>
  /\ out[1].kind = "added"
  /\ out[2].kind = "added"
  /\ fs[filePath].mode = 493

====
